---- MODULE Spec2Model ----
(***************************************************************************)
(* State-machine model of the permission-gated screens of the app:         *)
(*   LocationScreen  (src/unnamed/part_001)                                *)
(*   CameraScreen    (src/my-app/app/(tabs)/camera.jsx)                    *)
(*   practice        (src/my-app/app/(tabs)/practice.jsx), the login form   *)
(*                                                                         *)
(* Every `await` of a handler is a suspension point: the part of a handler *)
(* before its first await runs in the action of the press (or mount) that  *)
(* invokes it, and every continuation runs in the action of the platform   *)
(* call's completion.  A state setter stores the value it is given; the    *)
(* re-render and the effects that follow it are part of the same action    *)
(* and run only while the screen is mounted.                               *)
(*                                                                         *)
(* The screens share no state, so the variable `tab` selects the screen    *)
(* whose behaviours are explored; the other screen stays as constructed.   *)
(***************************************************************************)
EXTENDS Integers, FiniteSets, Sequences, TLC

\* ---------------------------------------------------------------- bounds
MaxCheck == 2      \* runs of checkLocationPermission in one session
MaxFix   == 2      \* invocations of getCurrentLocation in one session
MaxWatch == 2      \* watchPositionAsync calls in one session
MaxPermReq == 2    \* runs of handlePermissionRequest in one session
MaxCapture == 2    \* takePictureAsync calls in one session
MaxPick    == 1    \* launchImageLibraryAsync calls in one session
MaxSave    == 1    \* invocations of saveToGallery in one session
MaxLocOps  == 5    \* permission checks, fix requests and watch starts in one session
MaxCamOps  == 5    \* permission requests, captures, picks and saves in one session
MaxSubmit  == 2    \* requests sent by handleSubmit in one session
MaxLogout  == 1    \* invocations of handleLogout in one session
MaxMount   == 1    \* fresh mounts of the practice screen after the first

\* ------------------------------------------------------------ vocabulary
Tabs       == {"location", "camera", "practice"}
OsStatuses == {"undetermined", "denied", "granted"}
\* The location permission can also be denied for good (status 'denied',
\* canAskAgain false): a request then returns without showing a prompt.
LocOsStatuses == OsStatuses \cup {"blocked"}
NoSub      == 0
NoFix      == <<"none", 0>>
DefaultRegion == <<"default", 0>>
NoImage    == 0
PickedImage == MaxCapture + 1     \* result.assets[0] of the image picker
\* The errors createAssetAsync / createAlbumAsync can reject with.
SaveErrorKinds == {"PermissionMissing", "InsufficientStorage", "Unknown"}
\* Contents of the text inputs of the login form: empty or not.
FieldValues == {"", "a"}
\* The users the authentication API can return, and the `message` of its
\* error responses ("" when the body carries none).
Users == {"u1", "u2"}
ServerMessages == {"", "Invalid email or password", "User already exists"}
NoUserData == <<"none", "">>
NoAlert == <<"none", "">>

VARIABLES
  tab,                   \* the screen under analysis
  \* --- LocationScreen: React state (part_001:43-54)
  location, errorMsg, locIsLoading, permissionStatus, isTracking,
  locationSubscription, mapRegion,
  \* --- LocationScreen: environment and control state
  mounted,               \* the screen is mounted
  osLoc,                 \* OS status of the foreground location permission
  locAlert,              \* last Alert.alert shown by the location screen
  chkGet,                \* checkLocationPermission runs awaiting getForegroundPermissionsAsync
  chkReq,                \* checkLocationPermission runs awaiting requestForegroundPermissionsAsync
  checkCount,            \* checkLocationPermission runs started
  fixPending,            \* getCurrentLocation invocations awaiting getCurrentPositionAsync
  fixCount,              \* getCurrentLocation invocations started
  watchPending,          \* watchLocation calls awaiting watchPositionAsync
  watchCreated,          \* subscriptions created whose watchLocation has not resumed yet
  watchCount,            \* watchPositionAsync calls made
  liveSubs,              \* subscriptions created and not removed
  inFlight,              \* subscriptions with a fix dispatched to the callback and not landed yet
  cbSinceStop,           \* watch-callback updates since Stop Tracking removed a subscription
                         \* (NotStopped when a session was started since)
  \* --- CameraScreen: React state and ref (camera.jsx:18-25)
  permission, cameraType, capturedImage, isCameraReady, isLoading,
  galleryPermission, testMode, cameraRef,
  \* --- CameraScreen: environment and control state
  osCam,                 \* OS status of the camera permission
  osMedia,               \* OS status of the media-library permission
  previewReady,          \* the mounted preview has reported readiness since it was opened
  alert,                 \* last Alert.alert shown by the camera screen
  permGetPending,        \* useCameraPermissions still reads the status
  galCheckPending,       \* checkGalleryPermission awaits getPermissionsAsync
  permReqPending,        \* handlePermissionRequest runs awaiting requestPermission
  permReqCount,          \* handlePermissionRequest runs started
  capturePending,        \* takePictureAsync calls in flight
  captureCount,          \* takePictureAsync calls made
  pickPending,           \* launchImageLibraryAsync calls in flight
  pickCount,             \* launchImageLibraryAsync calls made
  saveTasks,             \* saveToGallery invocations in progress
  saveCount,             \* saveToGallery invocations started
  \* --- practice: React state (practice.jsx:7-12)
  name, email, password, isLogin, loading, currentUser,
  \* --- practice: environment and control state
  storedUserData,        \* the 'userData' item of SecureStore
  authAlert,             \* last Alert.alert shown by the login screen: <<title, message>>
  loadPending,           \* loadUserData awaits getItemAsync
  submitTasks,           \* handleSubmit invocations awaiting fetch or saveUserData
  submitCount,           \* requests sent by handleSubmit
  logoutPending,         \* handleLogout invocations awaiting deleteItemAsync
  logoutCount,           \* handleLogout invocations started
  mountCount,            \* fresh mounts of the practice screen after the first
  lastLogin              \* history: the user of the last successful login since
                         \* the last completed logout, "null" when there is none

locVars == <<location, errorMsg, locIsLoading, permissionStatus, isTracking,
             locationSubscription, mapRegion, mounted, osLoc, locAlert,
             chkGet, chkReq, checkCount, fixPending, fixCount,
             watchPending, watchCreated, watchCount, liveSubs, inFlight,
             cbSinceStop>>

camVars == <<permission, cameraType, capturedImage, isCameraReady, isLoading,
             galleryPermission, testMode, cameraRef, osCam, osMedia, previewReady,
             alert, permGetPending, galCheckPending, permReqPending, permReqCount,
             capturePending, captureCount, pickPending, pickCount, saveTasks,
             saveCount>>

authVars == <<name, email, password, isLogin, loading, currentUser, storedUserData,
              authAlert, loadPending, submitTasks, submitCount, logoutPending,
              logoutCount, mountCount, lastLogin>>

vars == <<tab, locVars, camVars, authVars>>

\* =================================================================
\* LocationScreen
\* =================================================================

\* Operations started on the screen so far.
LocOps == checkCount + fixCount + watchCount

\* Which of the three returns of the component renders (part_001:184-225).
LocScreen ==
  IF permissionStatus = "null" THEN "checking"
  ELSE IF permissionStatus # "granted" THEN "permission"
  ELSE "main"

\* The outcomes the OS can give to a permission request.
RequestOutcomes(os) == IF os = "granted" THEN {"granted"} ELSE {"granted", "denied"}

\* The outcomes the OS can give to a location permission request: the user
\* answers the prompt, or the OS answers for a permission denied for good.
LocRequestOutcomes(os) ==
  IF os = "granted" THEN {"granted"}
  ELSE IF os = "blocked" THEN {"blocked"}
  ELSE {"granted", "denied", "blocked"}

\* The `status` field of the permission response the OS gives in state os.
statusOf(os) == IF os = "blocked" THEN "denied" ELSE os

\* Mutant: the status read before the request stays recorded.
statusAfterRequestStale(read, returned) == read

\* setPermissionStatus(newStatus) after the request (part_001:77-78).
statusAfterRequest(read, returned) == returned

\* Mutant: getCurrentLocation() is called whatever the status is.
checkCallsGetCurrentAlways(status) == TRUE

\* Does checkLocationPermission go on to getCurrentLocation() with this status?
checkCallsGetCurrent(status) == status = "granted"

\* remove() of a subscription handle: the platform stops the watch.
removeSubscription(sub, live) == live \ {sub}

\* Mutant: the stop path leaves the handle stored.
subscriptionAfterStopKept(sub) == sub

\* setLocationSubscription(null) of the stop path; with no handle stored
\* the state is null already (part_001:126-129).
subscriptionAfterStop(sub) == NoSub

\* Value of cbSinceStop while no Stop Tracking is being accounted for.
NotStopped == 0 - 1

\* useEffect cleanup of the subscription effect: remove() of the stored handle.
cleanupSubscription(sub, live) == IF sub # NoSub THEN live \ {sub} ELSE live

\* State after construction: first render, then the mount effect has run
\* checkLocationPermission up to its first await.
LocInit ==
  /\ location = NoFix
  /\ errorMsg = "null"
  /\ locIsLoading = TRUE
  /\ permissionStatus = "null"
  /\ isTracking = FALSE
  /\ locationSubscription = NoSub
  /\ mapRegion = DefaultRegion
  /\ mounted = TRUE
  /\ osLoc \in LocOsStatuses
  /\ locAlert = "none"
  /\ chkGet = 1
  /\ chkReq = 0
  /\ checkCount = 1
  /\ fixPending = {}
  /\ fixCount = 0
  /\ watchPending = {}
  /\ watchCreated = {}
  /\ watchCount = 0
  /\ liveSubs = {}
  /\ inFlight = {}
  /\ cbSinceStop = NotStopped

\* getForegroundPermissionsAsync resolves (part_001:72-75, 89-91, 95-97).
LocGetDone ==
  /\ tab = "location"
  /\ chkGet > 0
  /\ chkGet' = chkGet - 1
  /\ permissionStatus' = statusOf(osLoc)
  /\ IF checkCallsGetCurrent(statusOf(osLoc))
       THEN /\ fixCount < MaxFix
            /\ fixCount' = fixCount + 1
            /\ fixPending' = fixPending \cup {fixCount + 1}
            /\ errorMsg' = "null"
            /\ locIsLoading' = FALSE
            /\ chkReq' = chkReq
       ELSE /\ chkReq' = chkReq + 1
            /\ UNCHANGED <<fixCount, fixPending, errorMsg, locIsLoading>>
  /\ UNCHANGED <<tab, camVars, authVars, inFlight, cbSinceStop, location, isTracking, locationSubscription, mapRegion,
                 mounted, osLoc, locAlert, checkCount,
                 watchPending, watchCreated, watchCount, liveSubs>>

\* getForegroundPermissionsAsync rejects (part_001:92-97).
LocGetThrow ==
  /\ tab = "location"
  /\ chkGet > 0
  /\ chkGet' = chkGet - 1
  /\ errorMsg' = "checkError"
  /\ locIsLoading' = FALSE
  /\ UNCHANGED <<tab, camVars, authVars, inFlight, cbSinceStop, location, permissionStatus, isTracking, locationSubscription,
                 mapRegion, mounted, osLoc, locAlert, chkReq, checkCount,
                 fixPending, fixCount, watchPending, watchCreated, watchCount, liveSubs>>

\* requestForegroundPermissionsAsync resolves with newStatus (part_001:76-88, 95-97).
LocRequestDone(newStatus) ==
  /\ tab = "location"
  /\ chkReq > 0
  /\ newStatus \in LocRequestOutcomes(osLoc)
  /\ chkReq' = chkReq - 1
  /\ osLoc' = newStatus
  /\ permissionStatus' = statusAfterRequest(permissionStatus, statusOf(newStatus))
  /\ IF checkCallsGetCurrent(statusOf(newStatus))
       THEN /\ fixCount < MaxFix
            /\ fixCount' = fixCount + 1
            /\ fixPending' = fixPending \cup {fixCount + 1}
            /\ errorMsg' = "null"
            /\ UNCHANGED locAlert
       ELSE /\ errorMsg' = "permissionDenied"
            /\ locAlert' = "Location Permission Required"
            /\ UNCHANGED <<fixCount, fixPending>>
  /\ locIsLoading' = FALSE
  /\ UNCHANGED <<tab, camVars, authVars, inFlight, cbSinceStop, location, isTracking, locationSubscription, mapRegion,
                 mounted, chkGet, checkCount,
                 watchPending, watchCreated, watchCount, liveSubs>>

\* requestForegroundPermissionsAsync rejects (part_001:92-97).
LocRequestThrow ==
  /\ tab = "location"
  /\ chkReq > 0
  /\ chkReq' = chkReq - 1
  /\ errorMsg' = "checkError"
  /\ locIsLoading' = FALSE
  /\ UNCHANGED <<tab, camVars, authVars, inFlight, cbSinceStop, location, permissionStatus, isTracking, locationSubscription,
                 mapRegion, mounted, osLoc, locAlert, chkGet, checkCount,
                 fixPending, fixCount, watchPending, watchCreated, watchCount, liveSubs>>

\* "Grant Location Permission" pressed: requestPermissionAgain (part_001:180-182, 205-209).
PressGrantLocation ==
  /\ tab = "location"
  /\ mounted
  /\ LocScreen = "permission"
  /\ ~locIsLoading
  /\ checkCount < MaxCheck
  /\ LocOps < MaxLocOps
  /\ checkCount' = checkCount + 1
  /\ chkGet' = chkGet + 1
  /\ locIsLoading' = TRUE
  /\ UNCHANGED <<tab, camVars, authVars, inFlight, cbSinceStop, location, errorMsg, permissionStatus, isTracking,
                 locationSubscription, mapRegion, mounted, osLoc, locAlert, chkReq,
                 fixPending, fixCount, watchPending, watchCreated, watchCount, liveSubs>>

\* "Get Current" or "Retry" pressed: getCurrentLocation up to its await (part_001:100-107).
PressGetCurrent ==
  /\ tab = "location"
  /\ mounted
  /\ LocScreen = "main"
  /\ fixCount < MaxFix
  /\ LocOps < MaxLocOps
  /\ fixCount' = fixCount + 1
  /\ fixPending' = fixPending \cup {fixCount + 1}
  /\ locIsLoading' = TRUE
  /\ errorMsg' = "null"
  /\ UNCHANGED <<tab, camVars, authVars, inFlight, cbSinceStop, location, permissionStatus, isTracking, locationSubscription,
                 mapRegion, mounted, osLoc, locAlert, chkGet, chkReq, checkCount,
                 watchPending, watchCreated, watchCount, liveSubs>>

\* getCurrentPositionAsync of invocation k resolves (part_001:109-115, 119-121).
FixDone(k) ==
  /\ tab = "location"
  /\ k \in fixPending
  /\ fixPending' = fixPending \ {k}
  /\ location' = <<"fix", k>>
  /\ mapRegion' = <<"fix", k>>
  /\ locIsLoading' = FALSE
  /\ UNCHANGED <<tab, camVars, authVars, inFlight, cbSinceStop, errorMsg, permissionStatus, isTracking, locationSubscription,
                 mounted, osLoc, locAlert, chkGet, chkReq, checkCount, fixCount,
                 watchPending, watchCreated, watchCount, liveSubs>>

\* getCurrentPositionAsync of invocation k rejects (part_001:116-121).
FixFail(k) ==
  /\ tab = "location"
  /\ k \in fixPending
  /\ fixPending' = fixPending \ {k}
  /\ errorMsg' = "fixError"
  /\ locIsLoading' = FALSE
  /\ UNCHANGED <<tab, camVars, authVars, inFlight, cbSinceStop, location, permissionStatus, isTracking, locationSubscription,
                 mapRegion, mounted, osLoc, locAlert, chkGet, chkReq, checkCount,
                 fixCount, watchPending, watchCreated, watchCount, liveSubs>>

\* "Start Tracking" / "Stop Tracking" pressed: watchLocation up to its return
\* or its await (part_001:124-137).  The stop path calls remove() on the
\* stored handle; storing null then re-runs the subscription effect, whose
\* cleanup calls remove() again on the handle it closed over.
PressTracking ==
  /\ tab = "location"
  /\ mounted
  /\ LocScreen = "main"
  /\ IF isTracking
       THEN /\ liveSubs' = cleanupSubscription(locationSubscription,
                              IF locationSubscription # NoSub
                                THEN removeSubscription(locationSubscription, liveSubs)
                                ELSE liveSubs)
            /\ locationSubscription' = subscriptionAfterStop(locationSubscription)
            /\ isTracking' = FALSE
            /\ cbSinceStop' = IF locationSubscription # NoSub THEN 0 ELSE cbSinceStop
            /\ UNCHANGED <<locIsLoading, watchPending, watchCount>>
       ELSE /\ watchCount < MaxWatch
            /\ LocOps < MaxLocOps
            /\ watchCount' = watchCount + 1
            /\ watchPending' = watchPending \cup {watchCount + 1}
            /\ locIsLoading' = TRUE
            /\ cbSinceStop' = NotStopped
            /\ UNCHANGED <<liveSubs, locationSubscription, isTracking>>
  /\ UNCHANGED <<tab, camVars, authVars, inFlight, location, errorMsg, permissionStatus, mapRegion, mounted,
                 osLoc, locAlert, chkGet, chkReq, checkCount, fixPending, fixCount,
                 watchCreated>>

\* The platform starts the watch of call k: from here on it delivers fixes
\* to the callback (part_001:137-153).
WatchStarted(k) ==
  /\ tab = "location"
  /\ k \in watchPending
  /\ watchPending' = watchPending \ {k}
  /\ watchCreated' = watchCreated \cup {k}
  /\ liveSubs' = liveSubs \cup {k}
  /\ UNCHANGED <<tab, camVars, authVars, inFlight, cbSinceStop, location, errorMsg, locIsLoading, permissionStatus, isTracking,
                 locationSubscription, mapRegion, mounted, osLoc, locAlert,
                 chkGet, chkReq, checkCount, fixPending, fixCount, watchCount>>

\* watchLocation resumes with the subscription of call k (part_001:155-156,
\* 160-162); the re-render runs the cleanup of the previous subscription
\* effect (part_001:60-67) while the screen is mounted.
WatchResume(k) ==
  /\ tab = "location"
  /\ k \in watchCreated
  /\ watchCreated' = watchCreated \ {k}
  /\ locationSubscription' = k
  /\ isTracking' = TRUE
  /\ locIsLoading' = FALSE
  /\ liveSubs' = IF mounted /\ locationSubscription # k
                   THEN cleanupSubscription(locationSubscription, liveSubs)
                   ELSE liveSubs
  /\ UNCHANGED <<tab, camVars, authVars, inFlight, cbSinceStop, location, errorMsg, permissionStatus, mapRegion, mounted,
                 osLoc, locAlert, chkGet, chkReq, checkCount, fixPending, fixCount,
                 watchPending, watchCount>>

\* watchPositionAsync of call k rejects (part_001:157-162).
WatchFail(k) ==
  /\ tab = "location"
  /\ k \in watchPending
  /\ watchPending' = watchPending \ {k}
  /\ errorMsg' = "watchError"
  /\ locIsLoading' = FALSE
  /\ UNCHANGED <<tab, camVars, authVars, inFlight, cbSinceStop, location, permissionStatus, isTracking, locationSubscription,
                 mapRegion, mounted, osLoc, locAlert, chkGet, chkReq, checkCount,
                 fixPending, fixCount, watchCreated, watchCount, liveSubs>>

\* The platform dispatches a fix of live subscription s to the watch
\* callback (part_001:137-143); a subscription has at most one delivery in
\* flight, which may land after remove().
WatchDispatch(s) ==
  /\ tab = "location"
  /\ s \in liveSubs
  /\ s \notin inFlight
  /\ inFlight' = inFlight \cup {s}
  /\ UNCHANGED <<tab, camVars, authVars, cbSinceStop, location, mapRegion, errorMsg, locIsLoading,
                 permissionStatus, isTracking, locationSubscription, mounted, osLoc,
                 locAlert, chkGet, chkReq, checkCount, fixPending, fixCount,
                 watchPending, watchCreated, watchCount, liveSubs>>

\* The dispatched fix of subscription s lands: the watch callback runs
\* (part_001:143-152).
WatchCallback(s) ==
  /\ tab = "location"
  /\ s \in inFlight
  /\ inFlight' = inFlight \ {s}
  /\ location' = <<"watch", s>>
  /\ mapRegion' = <<"watch", s>>
  /\ cbSinceStop' = IF cbSinceStop = NotStopped THEN NotStopped
                    ELSE IF cbSinceStop < 2 THEN cbSinceStop + 1
                    ELSE cbSinceStop
  /\ UNCHANGED <<tab, camVars, authVars, errorMsg, locIsLoading, permissionStatus, isTracking,
                 locationSubscription, mounted, osLoc, locAlert, chkGet, chkReq,
                 checkCount, fixPending, fixCount, watchPending, watchCreated,
                 watchCount, liveSubs>>

\* The screen is torn down: the cleanup of the subscription effect runs with
\* the handle stored at the last render (part_001:60-67).
LocUnmount ==
  /\ tab = "location"
  /\ mounted
  /\ mounted' = FALSE
  /\ liveSubs' = cleanupSubscription(locationSubscription, liveSubs)
  /\ UNCHANGED <<tab, camVars, authVars, inFlight, cbSinceStop, location, errorMsg, locIsLoading, permissionStatus, isTracking,
                 locationSubscription, mapRegion, osLoc, locAlert, chkGet, chkReq,
                 checkCount, fixPending, fixCount, watchPending, watchCreated,
                 watchCount>>

LocNext ==
  \/ LocGetDone
  \/ LocGetThrow
  \/ \E s \in LocOsStatuses : LocRequestDone(s)
  \/ LocRequestThrow
  \/ PressGrantLocation
  \/ PressGetCurrent
  \/ \E k \in 1..MaxFix : FixDone(k)
  \/ \E k \in 1..MaxFix : FixFail(k)
  \/ PressTracking
  \/ \E k \in 1..MaxWatch : WatchStarted(k)
  \/ \E k \in 1..MaxWatch : WatchResume(k)
  \/ \E k \in 1..MaxWatch : WatchFail(k)
  \/ \E s \in 1..MaxWatch : WatchDispatch(s)
  \/ \E s \in 1..MaxWatch : WatchCallback(s)
  \/ LocUnmount

\* =================================================================
\* CameraScreen
\* =================================================================

\* Operations started on the screen so far.
CamOps == permReqCount + captureCount + pickCount + saveCount

\* The returns of the component with the test-mode branch of the
\* permission-required screen left out: granted real permission renders the
\* camera.
CamScreenRealPermissionWins ==
  IF permission = "null" THEN "checking"
  ELSE IF testMode = "denied" THEN "testDenied"
  ELSE IF permission # "granted" THEN "permission"
  ELSE IF capturedImage # NoImage THEN "preview"
  ELSE "camera"

\* Which return of the component renders (camera.jsx:153-254).
CamScreen ==
  IF permission = "null" THEN "checking"
  ELSE IF testMode = "denied" THEN "testDenied"
  ELSE IF testMode = "granted" \/ permission # "granted" THEN "permission"
  ELSE IF capturedImage # NoImage THEN "preview"
  ELSE "camera"

\* The native image picker covers the application while it is open.
PickerOpen == pickPending > 0

\* A native permission prompt covers the application: the OS prompts for a
\* permission that is still undetermined (camera.jsx:43, 56).
PromptShowing ==
  \/ permReqPending > 0 /\ osCam = "undetermined"
  \/ osMedia = "undetermined" /\ \E t \in saveTasks : t.pc = "request"

\* The loading overlay is the last child of the camera view and of the photo
\* preview and covers their controls (camera.jsx:244-249, 281-285, 394-403).
ControlsTouchable == ~isLoading /\ ~PickerOpen /\ ~PromptShowing

\* Mutant: the permission is not looked at.
takePictureProceedsOnRef(ref, perm) == ref

\* takePicture goes on to takePictureAsync (camera.jsx:76).
takePictureProceeds(ref, perm) == ref /\ perm = "granted"

\* saveToGallery has to request the media-library permission (camera.jsx:119).
saveNeedsRequest(cached) == cached # "true"

\* Mutant: the refusal does not end saveToGallery.
saveProceedsAlways(granted) == TRUE

\* saveToGallery goes on to the media store after its request (camera.jsx:121-128).
saveProceeds(granted) == granted

\* Mutant: the photo is not stored.
imageAfterCaptureDropped(old, photo) == old

\* capturedImage after takePictureAsync resolved with photo (camera.jsx:84).
imageAfterCapture(old, photo) == photo

\* Mutant: no finally block.
loadingAfterCaptureKept(old) == old

\* isLoading after takePicture's try/catch/finally (camera.jsx:89-91).
loadingAfterCapture(old) == FALSE

\* Commit of a render: the ref follows the mounting of CameraView
\* (camera.jsx:256-261); a CameraView that mounts has not reported readiness.
\* `ready` is the readiness of a preview that stays mounted.
CamCommit(ready) ==
  /\ cameraRef' = (CamScreen' = "camera")
  /\ previewReady' = (CamScreen' = "camera" /\ cameraRef /\ ready)

\* State after construction: first render, then the mount effect has run
\* checkGalleryPermission up to its await and useCameraPermissions reads the
\* camera status (camera.jsx:18-29).
CamInit ==
  /\ permission = "null"
  /\ cameraType = "back"
  /\ capturedImage = NoImage
  /\ isCameraReady = FALSE
  /\ isLoading = FALSE
  /\ galleryPermission = "null"
  /\ testMode = "false"
  /\ cameraRef = FALSE
  /\ osCam \in OsStatuses
  /\ osMedia \in OsStatuses
  /\ previewReady = FALSE
  /\ alert = "none"
  /\ permGetPending = TRUE
  /\ galCheckPending = TRUE
  /\ permReqPending = 0
  /\ permReqCount = 0
  /\ capturePending = {}
  /\ captureCount = 0
  /\ pickPending = 0
  /\ pickCount = 0
  /\ saveTasks = {}
  /\ saveCount = 0

\* useCameraPermissions delivers the status it read (camera.jsx:18).
CamPermGetDone ==
  /\ tab = "camera"
  /\ permGetPending
  /\ permGetPending' = FALSE
  /\ permission' = osCam
  /\ UNCHANGED <<tab, locVars, authVars, cameraType, capturedImage, isCameraReady, isLoading,
                 galleryPermission, testMode, osCam, osMedia, alert, galCheckPending,
                 permReqPending, permReqCount, capturePending, captureCount,
                 pickPending, pickCount, saveTasks, saveCount>>
  /\ CamCommit(previewReady)

\* checkGalleryPermission: getPermissionsAsync resolves (camera.jsx:33-34).
GalCheckDone ==
  /\ tab = "camera"
  /\ galCheckPending
  /\ galCheckPending' = FALSE
  /\ galleryPermission' = IF osMedia = "granted" THEN "true" ELSE "false"
  /\ UNCHANGED <<tab, locVars, authVars, permission, cameraType, capturedImage, isCameraReady,
                 isLoading, testMode, osCam, osMedia, alert, permGetPending,
                 permReqPending, permReqCount, capturePending, captureCount,
                 pickPending, pickCount, saveTasks, saveCount>>
  /\ CamCommit(previewReady)

\* checkGalleryPermission: getPermissionsAsync rejects (camera.jsx:35-38).
GalCheckThrow ==
  /\ tab = "camera"
  /\ galCheckPending
  /\ galCheckPending' = FALSE
  /\ galleryPermission' = "false"
  /\ UNCHANGED <<tab, locVars, authVars, permission, cameraType, capturedImage, isCameraReady,
                 isLoading, testMode, osCam, osMedia, alert, permGetPending,
                 permReqPending, permReqCount, capturePending, captureCount,
                 pickPending, pickCount, saveTasks, saveCount>>
  /\ CamCommit(previewReady)

\* A test control is pressed: "Simulate Denied" / "Simulate Granted" on the
\* checking screen (camera.jsx:163-168), "Grant Camera Permission" / "Exit
\* Test Mode" on the simulated denied screen (camera.jsx:185-191).
SetTestMode(m) ==
  /\ tab = "camera"
  /\ \/ CamScreen = "checking" /\ m \in {"denied", "granted"}
     \/ CamScreen = "testDenied" /\ m \in {"granted", "false"}
  /\ testMode' = m
  /\ UNCHANGED <<tab, locVars, authVars, permission, cameraType, capturedImage, isCameraReady,
                 isLoading, galleryPermission, osCam, osMedia, alert, permGetPending,
                 galCheckPending, permReqPending, permReqCount, capturePending,
                 captureCount, pickPending, pickCount, saveTasks, saveCount>>
  /\ CamCommit(previewReady)

\* "Grant Camera Permission" pressed on the permission-required screen:
\* handlePermissionRequest up to its await (camera.jsx:53-56, 207-211).
PressGrantCamera ==
  /\ tab = "camera"
  /\ CamScreen = "permission"
  /\ ~isLoading
  /\ ~PickerOpen /\ ~PromptShowing
  /\ permReqCount < MaxPermReq
  /\ CamOps < MaxCamOps
  /\ permReqCount' = permReqCount + 1
  /\ permReqPending' = permReqPending + 1
  /\ isLoading' = TRUE
  /\ UNCHANGED <<tab, locVars, authVars, permission, cameraType, capturedImage, isCameraReady,
                 galleryPermission, testMode, osCam, osMedia, alert, permGetPending,
                 galCheckPending, capturePending, captureCount, pickPending,
                 pickCount, saveTasks, saveCount>>
  /\ CamCommit(previewReady)

\* requestPermission resolves with result r (camera.jsx:56-66, 70-72).
PermRequestDone(r) ==
  /\ tab = "camera"
  /\ permReqPending > 0
  /\ r \in RequestOutcomes(osCam)
  /\ permReqPending' = permReqPending - 1
  /\ osCam' = r
  /\ permission' = r
  /\ alert' = IF r = "granted" THEN "Success: Camera permission granted!"
                               ELSE "Permission Required: camera"
  /\ isLoading' = FALSE
  /\ UNCHANGED <<tab, locVars, authVars, cameraType, capturedImage, isCameraReady,
                 galleryPermission, testMode, osMedia, permGetPending,
                 galCheckPending, permReqCount, capturePending, captureCount,
                 pickPending, pickCount, saveTasks, saveCount>>
  /\ CamCommit(previewReady)

\* requestPermission rejects (camera.jsx:67-72).
PermRequestThrow ==
  /\ tab = "camera"
  /\ permReqPending > 0
  /\ permReqPending' = permReqPending - 1
  /\ alert' = "Error: Failed to request camera permission"
  /\ isLoading' = FALSE
  /\ UNCHANGED <<tab, locVars, authVars, permission, cameraType, capturedImage, isCameraReady,
                 galleryPermission, testMode, osCam, osMedia, permGetPending,
                 galCheckPending, permReqCount, capturePending, captureCount,
                 pickPending, pickCount, saveTasks, saveCount>>
  /\ CamCommit(previewReady)

\* The mounted preview reports readiness (camera.jsx:260).
OnCameraReady ==
  /\ tab = "camera"
  /\ cameraRef
  /\ ~previewReady
  /\ isCameraReady' = TRUE
  /\ UNCHANGED <<tab, locVars, authVars, permission, cameraType, capturedImage, isLoading,
                 galleryPermission, testMode, osCam, osMedia, alert, permGetPending,
                 galCheckPending, permReqPending, permReqCount, capturePending,
                 captureCount, pickPending, pickCount, saveTasks, saveCount>>
  /\ CamCommit(TRUE)

\* takePicture up to its return or its await (camera.jsx:75-83).
takePicture ==
  /\ tab = "camera"
  /\ IF takePictureProceeds(cameraRef, permission)
       THEN /\ captureCount < MaxCapture
            /\ CamOps < MaxCamOps
            /\ captureCount' = captureCount + 1
            /\ capturePending' = capturePending \cup {captureCount + 1}
            /\ isLoading' = TRUE
       ELSE UNCHANGED <<captureCount, capturePending, isLoading>>
  /\ UNCHANGED <<tab, locVars, authVars, permission, cameraType, capturedImage, isCameraReady,
                 galleryPermission, testMode, osCam, osMedia, alert, permGetPending,
                 galCheckPending, permReqPending, permReqCount, pickPending,
                 pickCount, saveTasks, saveCount>>
  /\ IF takePictureProceeds(cameraRef, permission)
       THEN CamCommit(previewReady)
       ELSE UNCHANGED <<cameraRef, previewReady>>

\* The capture button is pressed (camera.jsx:268-274).
PressCapture ==
  /\ CamScreen = "camera"
  /\ isCameraReady
  /\ ControlsTouchable
  /\ takePicture

\* takePictureAsync of call k resolves with photo k (camera.jsx:84-85, 89-91).
CaptureDone(k) ==
  /\ tab = "camera"
  /\ k \in capturePending
  /\ capturePending' = capturePending \ {k}
  /\ capturedImage' = imageAfterCapture(capturedImage, k)
  /\ isLoading' = loadingAfterCapture(isLoading)
  /\ UNCHANGED <<tab, locVars, authVars, permission, cameraType, isCameraReady,
                 galleryPermission, testMode, osCam, osMedia, alert, permGetPending,
                 galCheckPending, permReqPending, permReqCount, captureCount,
                 pickPending, pickCount, saveTasks, saveCount>>
  /\ CamCommit(previewReady)

\* takePictureAsync of call k rejects (camera.jsx:86-91).
CaptureFail(k) ==
  /\ tab = "camera"
  /\ k \in capturePending
  /\ capturePending' = capturePending \ {k}
  /\ alert' = "Error: Failed to take picture"
  /\ isLoading' = loadingAfterCapture(isLoading)
  /\ UNCHANGED <<tab, locVars, authVars, permission, cameraType, capturedImage, isCameraReady,
                 galleryPermission, testMode, osCam, osMedia, permGetPending,
                 galCheckPending, permReqPending, permReqCount, captureCount,
                 pickPending, pickCount, saveTasks, saveCount>>
  /\ CamCommit(previewReady)

\* The gallery button is pressed: pickImageFromGallery up to its await
\* (camera.jsx:94-102, 264).
PressPick ==
  /\ tab = "camera"
  /\ CamScreen = "camera"
  /\ ControlsTouchable
  /\ pickCount < MaxPick
  /\ CamOps < MaxCamOps
  /\ pickCount' = pickCount + 1
  /\ pickPending' = pickPending + 1
  /\ isLoading' = TRUE
  /\ UNCHANGED <<tab, locVars, authVars, permission, cameraType, capturedImage, isCameraReady,
                 galleryPermission, testMode, osCam, osMedia, alert, permGetPending,
                 galCheckPending, permReqPending, permReqCount, capturePending,
                 captureCount, saveTasks, saveCount>>
  /\ CamCommit(previewReady)

\* launchImageLibraryAsync resolves: an image was picked, or the picker was
\* cancelled (camera.jsx:104-107, 111-113).
PickDone(canceled) ==
  /\ tab = "camera"
  /\ pickPending > 0
  /\ pickPending' = pickPending - 1
  /\ capturedImage' = IF canceled THEN capturedImage ELSE PickedImage
  /\ isLoading' = FALSE
  /\ UNCHANGED <<tab, locVars, authVars, permission, cameraType, isCameraReady,
                 galleryPermission, testMode, osCam, osMedia, alert, permGetPending,
                 galCheckPending, permReqPending, permReqCount, capturePending,
                 captureCount, pickCount, saveTasks, saveCount>>
  /\ CamCommit(previewReady)

\* launchImageLibraryAsync rejects (camera.jsx:108-113).
PickFail ==
  /\ tab = "camera"
  /\ pickPending > 0
  /\ pickPending' = pickPending - 1
  /\ alert' = "Error: Failed to pick image from gallery"
  /\ isLoading' = FALSE
  /\ UNCHANGED <<tab, locVars, authVars, permission, cameraType, capturedImage, isCameraReady,
                 galleryPermission, testMode, osCam, osMedia, permGetPending,
                 galCheckPending, permReqPending, permReqCount, capturePending,
                 captureCount, pickCount, saveTasks, saveCount>>
  /\ CamCommit(previewReady)

\* The switch button is pressed: toggleCameraType (camera.jsx:145-147, 276).
\* The preview reopens with the other lens; whether it is ready again at
\* once is the platform's choice.
PressToggle ==
  /\ tab = "camera"
  /\ CamScreen = "camera"
  /\ ControlsTouchable
  /\ cameraType' = IF cameraType = "back" THEN "front" ELSE "back"
  /\ UNCHANGED <<tab, locVars, authVars, permission, capturedImage, isCameraReady, isLoading,
                 galleryPermission, testMode, osCam, osMedia, alert, permGetPending,
                 galCheckPending, permReqPending, permReqCount, capturePending,
                 captureCount, pickPending, pickCount, saveTasks, saveCount>>
  /\ \E ready \in {previewReady, FALSE} : CamCommit(ready)

\* "Retake" pressed: resetCamera (camera.jsx:149-151, 233).
PressRetake ==
  /\ tab = "camera"
  /\ CamScreen = "preview"
  /\ ControlsTouchable
  /\ capturedImage' = NoImage
  /\ UNCHANGED <<tab, locVars, authVars, permission, cameraType, isCameraReady, isLoading,
                 galleryPermission, testMode, osCam, osMedia, alert, permGetPending,
                 galCheckPending, permReqPending, permReqCount, capturePending,
                 captureCount, pickPending, pickCount, saveTasks, saveCount>>
  /\ CamCommit(previewReady)

\* saveToGallery after requestGalleryPermission returned `granted`
\* (camera.jsx:120-131).
SaveAfterRequest(t, granted) ==
  IF saveProceeds(granted)
    THEN /\ isLoading' = TRUE
         /\ saveTasks' = (saveTasks \ {t}) \cup
                          {[t EXCEPT !.pc = "asset", !.granted = granted,
                                     !.assetCalls = @ + 1]}
         /\ UNCHANGED alert
    ELSE /\ alert' = "Permission Required: gallery"
         /\ saveTasks' = saveTasks \ {t}
         /\ UNCHANGED isLoading

\* "Save" pressed: saveToGallery up to its return or its first await
\* (camera.jsx:116-133, 238).
PressSave ==
  /\ tab = "camera"
  /\ CamScreen = "preview"
  /\ ControlsTouchable
  /\ IF capturedImage = NoImage
       THEN UNCHANGED <<saveCount, saveTasks, isLoading>>
       ELSE /\ saveCount < MaxSave
            /\ CamOps < MaxCamOps
            /\ saveCount' = saveCount + 1
            /\ IF saveNeedsRequest(galleryPermission)
                 THEN /\ saveTasks' = saveTasks \cup
                           {[id |-> saveCount + 1, img |-> capturedImage,
                             cached |-> galleryPermission, granted |-> FALSE,
                             pc |-> "request", assetCalls |-> 0, albumCalls |-> 0]}
                      /\ UNCHANGED isLoading
                 ELSE /\ saveTasks' = saveTasks \cup
                           {[id |-> saveCount + 1, img |-> capturedImage,
                             cached |-> galleryPermission, granted |-> FALSE,
                             pc |-> "asset", assetCalls |-> 1, albumCalls |-> 0]}
                      /\ isLoading' = TRUE
  /\ UNCHANGED <<tab, locVars, authVars, permission, cameraType, capturedImage, isCameraReady,
                 galleryPermission, testMode, osCam, osMedia, alert, permGetPending,
                 galCheckPending, permReqPending, permReqCount, capturePending,
                 captureCount, pickPending, pickCount>>
  /\ CamCommit(previewReady)

\* requestGalleryPermission: requestPermissionsAsync resolves with status r
\* (camera.jsx:43-45), then saveToGallery resumes.
SaveRequestDone(t, r) ==
  /\ tab = "camera"
  /\ t \in saveTasks
  /\ t.pc = "request"
  /\ r \in RequestOutcomes(osMedia)
  /\ osMedia' = r
  /\ galleryPermission' = IF r = "granted" THEN "true" ELSE "false"
  /\ SaveAfterRequest(t, r = "granted")
  /\ UNCHANGED <<tab, locVars, authVars, permission, cameraType, capturedImage, isCameraReady,
                 testMode, osCam, permGetPending, galCheckPending, permReqPending,
                 permReqCount, capturePending, captureCount, pickPending, pickCount,
                 saveCount>>
  /\ CamCommit(previewReady)

\* requestGalleryPermission: requestPermissionsAsync rejects (camera.jsx:46-50),
\* then saveToGallery resumes with granted = false.
SaveRequestThrow(t) ==
  /\ tab = "camera"
  /\ t \in saveTasks
  /\ t.pc = "request"
  /\ galleryPermission' = "false"
  /\ SaveAfterRequest(t, FALSE)
  /\ UNCHANGED <<tab, locVars, authVars, permission, cameraType, capturedImage, isCameraReady,
                 testMode, osCam, osMedia, permGetPending, galCheckPending,
                 permReqPending, permReqCount, capturePending, captureCount,
                 pickPending, pickCount, saveCount>>
  /\ CamCommit(previewReady)

\* createAssetAsync resolves; createAlbumAsync is called (camera.jsx:133-134).
SaveAssetDone(t) ==
  /\ tab = "camera"
  /\ t \in saveTasks
  /\ t.pc = "asset"
  /\ saveTasks' = (saveTasks \ {t}) \cup
                   {[t EXCEPT !.pc = "album", !.albumCalls = @ + 1]}
  /\ UNCHANGED <<tab, locVars, authVars, permission, cameraType, capturedImage, isCameraReady,
                 isLoading, galleryPermission, testMode, osCam, osMedia, alert,
                 permGetPending, galCheckPending, permReqPending, permReqCount,
                 capturePending, captureCount, pickPending, pickCount, saveCount>>
  /\ CamCommit(previewReady)

\* createAlbumAsync resolves (camera.jsx:135-136, 140-142).
SaveAlbumDone(t) ==
  /\ tab = "camera"
  /\ t \in saveTasks
  /\ t.pc = "album"
  /\ saveTasks' = saveTasks \ {t}
  /\ alert' = "Success: Image saved to gallery!"
  /\ isLoading' = FALSE
  /\ UNCHANGED <<tab, locVars, authVars, permission, cameraType, capturedImage, isCameraReady,
                 galleryPermission, testMode, osCam, osMedia, permGetPending,
                 galCheckPending, permReqPending, permReqCount, capturePending,
                 captureCount, pickPending, pickCount, saveCount>>
  /\ CamCommit(previewReady)

\* Mutant: a failed save starts over with createAssetAsync.
tasksAfterSaveFailRetried(t, tasks) ==
  (tasks \ {t}) \cup {[t EXCEPT !.pc = "asset", !.assetCalls = @ + 1]}

\* The catch of saveToGallery ends the invocation (camera.jsx:137-142).
tasksAfterSaveFail(t, tasks) == tasks \ {t}

\* The alert the catch of saveToGallery shows for a media-store error
\* (camera.jsx:137-139).
saveErrorAlert(error) == "Error: Failed to save image to gallery"

\* createAssetAsync or createAlbumAsync rejects with `error`
\* (camera.jsx:137-142).
SaveFail(t, error) ==
  /\ tab = "camera"
  /\ t \in saveTasks
  /\ t.pc \in {"asset", "album"}
  /\ saveTasks' = tasksAfterSaveFail(t, saveTasks)
  /\ alert' = saveErrorAlert(error)
  /\ isLoading' = FALSE
  /\ UNCHANGED <<tab, locVars, authVars, permission, cameraType, capturedImage, isCameraReady,
                 galleryPermission, testMode, osCam, osMedia, permGetPending,
                 galCheckPending, permReqPending, permReqCount, capturePending,
                 captureCount, pickPending, pickCount, saveCount>>
  /\ CamCommit(previewReady)

CamNext ==
  \/ CamPermGetDone
  \/ GalCheckDone
  \/ GalCheckThrow
  \/ \E m \in {"false", "denied", "granted"} : SetTestMode(m)
  \/ PressGrantCamera
  \/ \E r \in OsStatuses : PermRequestDone(r)
  \/ PermRequestThrow
  \/ OnCameraReady
  \/ PressCapture
  \/ \E k \in 1..MaxCapture : CaptureDone(k)
  \/ \E k \in 1..MaxCapture : CaptureFail(k)
  \/ PressPick
  \/ \E c \in BOOLEAN : PickDone(c)
  \/ PickFail
  \/ PressToggle
  \/ PressRetake
  \/ PressSave
  \/ \E t \in saveTasks : \E r \in OsStatuses : SaveRequestDone(t, r)
  \/ \E t \in saveTasks : SaveRequestThrow(t)
  \/ \E t \in saveTasks : SaveAssetDone(t)
  \/ \E t \in saveTasks : SaveAlbumDone(t)
  \/ \E t \in saveTasks : \E e \in SaveErrorKinds : SaveFail(t, e)

\* =================================================================
\* practice (login form)
\* =================================================================

\* JSON.stringify(user) and JSON.parse(userData) (practice.jsx:25, 36).
stringify(user) == <<"json", user>>
parse(userData) == userData[2]

\* Mutant: the name is not required in register mode.
fieldsMissingNameIgnored(e, p, login, n) == e = "" \/ p = ""

\* The validation of handleSubmit (practice.jsx:53).
fieldsMissing(e, p, login, n) == e = "" \/ p = "" \/ (~login /\ n = "")

\* Mutant: the fallback text is shown for every error response.
rejectionAlertGeneric(message) == <<"Error", "Something went wrong">>

\* The alert for a non-2xx response (practice.jsx:89).
rejectionAlert(message) ==
  <<"Error", IF message = "" THEN "Something went wrong" ELSE message>>

\* State after construction: first render, then the mount effect has run
\* loadUserData up to its await (practice.jsx:7-19).
AuthInit ==
  /\ name = ""
  /\ email = ""
  /\ password = ""
  /\ isLogin = TRUE
  /\ loading = FALSE
  /\ currentUser = "null"
  /\ storedUserData \in {NoUserData} \cup {stringify(u) : u \in Users}
  /\ authAlert = NoAlert
  /\ loadPending = TRUE
  /\ submitTasks = {}
  /\ submitCount = 0
  /\ logoutPending = 0
  /\ logoutCount = 0
  /\ mountCount = 0
  /\ lastLogin = "null"

\* getItemAsync resolves (practice.jsx:23-28).
LoadDone ==
  /\ tab = "practice"
  /\ loadPending
  /\ loadPending' = FALSE
  /\ currentUser' = IF storedUserData # NoUserData THEN parse(storedUserData)
                    ELSE currentUser
  /\ UNCHANGED <<tab, locVars, camVars, mountCount, lastLogin, name, email, password, isLogin, loading,
                 storedUserData, authAlert, submitTasks, submitCount, logoutPending,
                 logoutCount>>

\* getItemAsync rejects (practice.jsx:29-31).
LoadFail ==
  /\ tab = "practice"
  /\ loadPending
  /\ loadPending' = FALSE
  /\ UNCHANGED <<tab, locVars, camVars, mountCount, lastLogin, name, email, password, isLogin, loading,
                 currentUser, storedUserData, authAlert, submitTasks, submitCount,
                 logoutPending, logoutCount>>

\* Text typed into the name input, shown in register mode (practice.jsx:136-144).
SetName(v) ==
  /\ tab = "practice"
  /\ currentUser = "null"
  /\ ~isLogin
  /\ v # name
  /\ name' = v
  /\ UNCHANGED <<tab, locVars, camVars, mountCount, lastLogin, email, password, isLogin, loading, currentUser,
                 storedUserData, authAlert, loadPending, submitTasks, submitCount,
                 logoutPending, logoutCount>>

\* Text typed into the email input (practice.jsx:146-154).
SetEmail(v) ==
  /\ tab = "practice"
  /\ currentUser = "null"
  /\ v # email
  /\ email' = v
  /\ UNCHANGED <<tab, locVars, camVars, mountCount, lastLogin, name, password, isLogin, loading, currentUser,
                 storedUserData, authAlert, loadPending, submitTasks, submitCount,
                 logoutPending, logoutCount>>

\* Text typed into the password input (practice.jsx:156-163).
SetPassword(v) ==
  /\ tab = "practice"
  /\ currentUser = "null"
  /\ v # password
  /\ password' = v
  /\ UNCHANGED <<tab, locVars, camVars, mountCount, lastLogin, name, email, isLogin, loading, currentUser,
                 storedUserData, authAlert, loadPending, submitTasks, submitCount,
                 logoutPending, logoutCount>>

\* The submit button accepts presses whatever `loading` is.
submitEnabledAlways(l) == TRUE

\* The submit button is disabled while `loading` (practice.jsx:165-169).
submitEnabled(l) == ~l

\* The submit button is pressed: handleSubmit up to its return or its first
\* await (practice.jsx:52-73, 165-169).  The continuation keeps the isLogin
\* of this render.
handleSubmit ==
  /\ tab = "practice"
  /\ currentUser = "null"
  /\ submitEnabled(loading)
  /\ IF fieldsMissing(email, password, isLogin, name)
       THEN /\ authAlert' = <<"Error", "Please fill in all fields">>
            /\ UNCHANGED <<loading, submitTasks, submitCount>>
       ELSE /\ submitCount < MaxSubmit
            /\ submitCount' = submitCount + 1
            /\ loading' = TRUE
            /\ submitTasks' = submitTasks \cup
                  {[id |-> submitCount + 1, login |-> isLogin, pc |-> "fetch",
                    user |-> "null"]}
            /\ UNCHANGED authAlert
  /\ UNCHANGED <<tab, locVars, camVars, mountCount, lastLogin, name, email, password, isLogin, currentUser,
                 storedUserData, loadPending, logoutPending, logoutCount>>

\* The API answers 2xx (practice.jsx:73-87, 95-97): a login stores the user
\* and goes on to saveUserData; a registration switches to login mode.
SubmitOk(t, user) ==
  /\ tab = "practice"
  /\ t \in submitTasks
  /\ t.pc = "fetch"
  /\ authAlert' = <<"Success", "message">>
  /\ IF t.login
       THEN /\ currentUser' = user
            /\ lastLogin' = user
            /\ submitTasks' = (submitTasks \ {t}) \cup
                                {[t EXCEPT !.pc = "save", !.user = user]}
            /\ UNCHANGED <<isLogin, password, loading>>
       ELSE /\ isLogin' = TRUE
            /\ password' = ""
            /\ loading' = FALSE
            /\ submitTasks' = submitTasks \ {t}
            /\ UNCHANGED <<currentUser, lastLogin>>
  /\ UNCHANGED <<tab, locVars, camVars, mountCount, name, email, storedUserData, loadPending,
                 submitCount, logoutPending, logoutCount>>

\* saveUserData: setItemAsync resolves (practice.jsx:34-37), then
\* handleSubmit clears the form (practice.jsx:82-83, 95-97).
SubmitSaveDone(t) ==
  /\ tab = "practice"
  /\ t \in submitTasks
  /\ t.pc = "save"
  /\ storedUserData' = stringify(t.user)
  /\ email' = ""
  /\ password' = ""
  /\ loading' = FALSE
  /\ submitTasks' = submitTasks \ {t}
  /\ UNCHANGED <<tab, locVars, camVars, mountCount, lastLogin, name, isLogin, currentUser, authAlert,
                 loadPending, submitCount, logoutPending, logoutCount>>

\* saveUserData: setItemAsync rejects and the error is logged
\* (practice.jsx:38-40), then handleSubmit clears the form.
SubmitSaveFail(t) ==
  /\ tab = "practice"
  /\ t \in submitTasks
  /\ t.pc = "save"
  /\ email' = ""
  /\ password' = ""
  /\ loading' = FALSE
  /\ submitTasks' = submitTasks \ {t}
  /\ UNCHANGED <<tab, locVars, camVars, mountCount, lastLogin, name, isLogin, currentUser, storedUserData,
                 authAlert, loadPending, submitCount, logoutPending, logoutCount>>

\* The API answers non-2xx with `message` (practice.jsx:88-90, 95-97).
SubmitRejected(t, message) ==
  /\ tab = "practice"
  /\ t \in submitTasks
  /\ t.pc = "fetch"
  /\ authAlert' = rejectionAlert(message)
  /\ loading' = FALSE
  /\ submitTasks' = submitTasks \ {t}
  /\ UNCHANGED <<tab, locVars, camVars, mountCount, lastLogin, name, email, password, isLogin, currentUser,
                 storedUserData, loadPending, submitCount, logoutPending, logoutCount>>

\* fetch rejects, or the body of the response is not JSON (practice.jsx:91-97).
SubmitNetworkFail(t) ==
  /\ tab = "practice"
  /\ t \in submitTasks
  /\ t.pc = "fetch"
  /\ authAlert' = <<"Error", "Network error. Please make sure the backend server is running.">>
  /\ loading' = FALSE
  /\ submitTasks' = submitTasks \ {t}
  /\ UNCHANGED <<tab, locVars, camVars, mountCount, lastLogin, name, email, password, isLogin, currentUser,
                 storedUserData, loadPending, submitCount, logoutPending, logoutCount>>

\* The mode link is pressed (practice.jsx:100-103, 175).
toggleMode ==
  /\ tab = "practice"
  /\ currentUser = "null"
  /\ isLogin' = ~isLogin
  /\ password' = ""
  /\ UNCHANGED <<tab, locVars, camVars, mountCount, lastLogin, name, email, loading, currentUser,
                 storedUserData, authAlert, loadPending, submitTasks, submitCount,
                 logoutPending, logoutCount>>

\* "Logout" pressed: handleLogout up to the await of clearUserData
\* (practice.jsx:43-45, 105-106, 119).
handleLogout ==
  /\ tab = "practice"
  /\ currentUser # "null"
  /\ logoutCount < MaxLogout
  /\ logoutCount' = logoutCount + 1
  /\ logoutPending' = logoutPending + 1
  /\ UNCHANGED <<tab, locVars, camVars, mountCount, lastLogin, name, email, password, isLogin, loading,
                 currentUser, storedUserData, authAlert, loadPending, submitTasks,
                 submitCount>>

\* deleteItemAsync resolves, handleLogout resumes (practice.jsx:45, 107-108).
LogoutClearDone ==
  /\ tab = "practice"
  /\ logoutPending > 0
  /\ logoutPending' = logoutPending - 1
  /\ storedUserData' = NoUserData
  /\ currentUser' = "null"
  /\ lastLogin' = "null"
  /\ authAlert' = <<"Logged Out", "You have been logged out successfully">>
  /\ UNCHANGED <<tab, locVars, camVars, mountCount, name, email, password, isLogin, loading,
                 loadPending, submitTasks, submitCount, logoutCount>>

\* deleteItemAsync rejects and the error is logged (practice.jsx:46-48),
\* handleLogout resumes (practice.jsx:107-108).
LogoutClearFail ==
  /\ tab = "practice"
  /\ logoutPending > 0
  /\ logoutPending' = logoutPending - 1
  /\ currentUser' = "null"
  /\ lastLogin' = "null"
  /\ authAlert' = <<"Logged Out", "You have been logged out successfully">>
  /\ UNCHANGED <<tab, locVars, camVars, mountCount, name, email, password, isLogin, loading,
                 storedUserData, loadPending, submitTasks, submitCount, logoutCount>>

\* The application is started again once every started operation has
\* finished: the component mounts with its initial state and its effect
\* calls loadUserData (practice.jsx:7-19); the secure store keeps its item.
Remount ==
  /\ tab = "practice"
  /\ mountCount < MaxMount
  /\ ~loadPending /\ submitTasks = {} /\ logoutPending = 0
  /\ mountCount' = mountCount + 1
  /\ name' = ""
  /\ email' = ""
  /\ password' = ""
  /\ isLogin' = TRUE
  /\ loading' = FALSE
  /\ currentUser' = "null"
  /\ authAlert' = NoAlert
  /\ loadPending' = TRUE
  /\ UNCHANGED <<tab, locVars, camVars, lastLogin, storedUserData, submitTasks,
                 submitCount, logoutPending, logoutCount>>

AuthNext ==
  \/ LoadDone
  \/ LoadFail
  \/ \E v \in FieldValues : SetName(v)
  \/ \E v \in FieldValues : SetEmail(v)
  \/ \E v \in FieldValues : SetPassword(v)
  \/ handleSubmit
  \/ \E t \in submitTasks : \E u \in Users : SubmitOk(t, u)
  \/ \E t \in submitTasks : SubmitSaveDone(t)
  \/ \E t \in submitTasks : SubmitSaveFail(t)
  \/ \E t \in submitTasks : \E m \in ServerMessages : SubmitRejected(t, m)
  \/ \E t \in submitTasks : SubmitNetworkFail(t)
  \/ toggleMode
  \/ handleLogout
  \/ LogoutClearDone
  \/ LogoutClearFail
  \/ Remount

\* The environment of the screens that are not explored is fixed.
Init ==
  /\ tab \in Tabs
  /\ LocInit
  /\ CamInit
  /\ AuthInit
  /\ tab # "practice" => storedUserData = NoUserData
  /\ tab # "location" => osLoc = "undetermined"
  /\ tab # "camera" => osCam = "undetermined" /\ osMedia = "undetermined"

Next == LocNext \/ CamNext \/ AuthNext

Spec == Init /\ [][Next]_vars

\* -----------------------------------------------------------------
\* takePicture on its own: the handler applied to every value of the state
\* it reads (cameraRef.current, permission) and writes, without the render
\* guards in front of it.
TakePictureInit ==
  /\ tab = "camera"
  /\ LocInit
  /\ AuthInit
  /\ storedUserData = NoUserData
  /\ osLoc = "undetermined"
  /\ permission \in {"null", "undetermined", "denied", "granted"}
  /\ cameraType = "back"
  /\ capturedImage \in {NoImage, PickedImage}
  /\ isCameraReady \in BOOLEAN
  /\ isLoading \in BOOLEAN
  /\ galleryPermission = "null"
  /\ testMode \in {"false", "denied", "granted"}
  /\ cameraRef \in BOOLEAN
  /\ osCam = (IF permission = "null" THEN "undetermined" ELSE permission)
  /\ osMedia = "undetermined"
  /\ previewReady = FALSE
  /\ alert = "none"
  /\ permGetPending = (permission = "null")
  /\ galCheckPending = TRUE
  /\ permReqPending = 0
  /\ permReqCount = 0
  /\ capturePending = {}
  /\ captureCount = 0
  /\ pickPending = 0
  /\ pickCount = 0
  /\ saveTasks = {}
  /\ saveCount = 0

TakePictureNext ==
  \/ takePicture
  \/ \E k \in 1..MaxCapture : CaptureDone(k)
  \/ \E k \in 1..MaxCapture : CaptureFail(k)

TakePictureSpec == TakePictureInit /\ [][TakePictureNext]_vars

\* -----------------------------------------------------------------
\* The stop path of watchLocation on its own: the handler applied to every
\* value of the state it reads (isTracking, locationSubscription) and of the
\* platform's set of running watches, followed by the teardown of the screen.
WatchStopInit ==
  /\ tab = "location"
  /\ CamInit
  /\ AuthInit
  /\ storedUserData = NoUserData
  /\ osCam = "undetermined"
  /\ osMedia = "undetermined"
  /\ location \in {NoFix, <<"fix", 1>>}
  /\ mapRegion = (IF location = NoFix THEN DefaultRegion ELSE location)
  /\ errorMsg \in {"null", "watchError"}
  /\ locIsLoading \in BOOLEAN
  /\ permissionStatus = "granted"
  /\ isTracking \in BOOLEAN
  /\ locationSubscription \in {NoSub} \cup (1..MaxWatch)
  /\ mounted = TRUE
  /\ osLoc = "granted"
  /\ locAlert = "none"
  /\ chkGet = 0
  /\ chkReq = 0
  /\ checkCount = 1
  /\ fixPending = {}
  /\ fixCount = MaxFix
  /\ watchPending = {}
  /\ watchCreated = {}
  /\ watchCount = MaxWatch
  /\ liveSubs \in SUBSET (1..MaxWatch)
  /\ inFlight = {}
  /\ cbSinceStop = NotStopped

\* watchLocation invoked with isTracking true (part_001:125-133).
watchLocationStop == isTracking /\ PressTracking

WatchStopNext ==
  \/ watchLocationStop
  \/ LocUnmount

WatchStopSpec == WatchStopInit /\ [][WatchStopNext]_vars

\* =================================================================
\* Properties
\* =================================================================

\* A step in which the screen calls getCurrentPositionAsync or watchPositionAsync.
LocationCallMade ==
  \/ fixPending' \ fixPending # {}
  \/ watchPending' \ watchPending # {}

\* C1: the location subsystem is called only with the recorded permission
\* status 'granted'; a permission request that ends not granted records an
\* error and makes no location call.
NoLocationCallUnlessGranted ==
  [][ /\ LocationCallMade => permissionStatus' = "granted"
      /\ (chkReq' < chkReq /\ permissionStatus' # "granted")
            => (errorMsg' # "null" /\ ~LocationCallMade) ]_vars

\* C1 witness: a request ended denied; the error is recorded and no location
\* call was ever made.
DeniedWithoutLocationCall ==
  /\ tab = "location"
  /\ permissionStatus = "denied"
  /\ errorMsg = "permissionDenied"
  /\ chkGet = 0 /\ chkReq = 0
  /\ fixCount = 0 /\ watchCount = 0

\* C2: at every instant at most one subscription created by the screen is live.
AtMostOneLiveSubscription == Cardinality(liveSubs) <= 1

\* C3: once the screen is torn down and no watchLocation call is still in
\* progress, every subscription created for the screen has been removed.
TeardownRemovesEverySubscription ==
  (~mounted /\ watchPending = {} /\ watchCreated = {}) => liveSubs = {}

\* C4: takePictureAsync is invoked only after the currently mounted preview
\* has reported readiness since it was last opened.
CaptureOnlyWhenReady ==
  [][ capturePending' \ capturePending # {} => previewReady ]_vars

\* C5: no OS permission request is issued while the permission of its kind is
\* already granted (camera, media library, location).
NoRequestWhileGranted ==
  [][ /\ permReqPending' > permReqPending => osCam # "granted"
      /\ (\E t \in saveTasks' \ saveTasks : t.pc = "request") => osMedia # "granted"
      /\ chkReq' > chkReq => osLoc # "granted" ]_vars


\* C6: takePictureAsync is called only with the camera permission granted and
\* a preview mounted; without either, a step that is not the completion of a
\* capture leaves isLoading and capturedImage as they were.
TakePictureOnlyWithPermissionAndPreview ==
  [][ /\ capturePending' \ capturePending # {}
            => (permission = "granted" /\ cameraRef)
      /\ (~(permission = "granted" /\ cameraRef) /\ capturePending' = capturePending)
            => (isLoading' = isLoading /\ capturedImage' = capturedImage) ]_vars

\* C6 witness: a capture is in flight, started with permission and preview.
CaptureStartedWithPermission ==
  /\ capturePending # {}
  /\ permission = "granted"
  /\ captureCount = 1
  /\ isLoading

\* A saveToGallery invocation has called the media store.
AtMediaStore(t) == t.pc \in {"asset", "album"}

\* C7: saveToGallery calls the media store only with a captured image and
\* with the media-library permission cached as granted or granted by the
\* request of that call; when the request is refused the call ends without a
\* media-store call and without setting isLoading.
MediaStoreOnlyWithImageAndPermission ==
  /\ [](\A t \in saveTasks :
          AtMediaStore(t) => (t.img # NoImage /\ (t.cached = "true" \/ t.granted)))
  /\ [][ \A t \in saveTasks :
          (t.pc = "request" /\ (\A u \in saveTasks' : u.id # t.id))
             => (isLoading' = isLoading /\ saveTasks' \subseteq saveTasks) ]_vars

\* C7 witness: a save reached the media store on the permission its own
\* request obtained.
SaveAfterGrantedRequest ==
  \E t \in saveTasks : AtMediaStore(t) /\ t.cached # "true" /\ t.granted

CaptureFailureIsNonFatal ==
  [][ \A k \in 1..MaxCapture :
        CaptureFail(k) => /\ capturedImage' = capturedImage
                          /\ alert' = "Error: Failed to take picture"
                          /\ ~isLoading'
                          /\ CamScreen' = CamScreen
                          /\ CamScreen = "camera" => (cameraRef' /\ isCameraReady') ]_vars

\* C9 witness: a capture failed and the live camera view is available again.
FailedCaptureBackInCameraView ==
  /\ alert = "Error: Failed to take picture"
  /\ CamScreen = "camera"
  /\ capturedImage = NoImage
  /\ capturePending = {}
  /\ ~isLoading
  /\ isCameraReady

\* C10: at most one takePictureAsync call is in flight at any time.
AtMostOneCaptureInFlight == Cardinality(capturePending) <= 1

\* C11: once Stop Tracking has removed the subscription, the watch callback
\* updates location and mapRegion at most once (the in-flight straggler)
\* until a tracking session is started again.
StoppedWatchUpdatesAtMostOnce == cbSinceStop <= 1

\* C12: from every state with isTracking true the stop path of
\* watchLocation ends with isTracking false, no subscription stored and the
\* stored subscription's watch ended, and changes nothing else; remove() of
\* an already removed subscription by the effect cleanup changes nothing.
StopAlwaysEndsClosed ==
  [][ /\ watchLocationStop =>
            /\ ~isTracking'
            /\ locationSubscription' = NoSub
            /\ liveSubs' = liveSubs \ {locationSubscription}
            /\ UNCHANGED <<location, mapRegion, errorMsg, locIsLoading,
                           permissionStatus, mounted, watchPending, watchCount>>
      /\ (LocUnmount /\ locationSubscription \notin liveSubs) =>
            /\ liveSubs' = liveSubs
            /\ UNCHANGED <<isTracking, locationSubscription>> ]_vars

\* C12 witness: the stop path removed a stored subscription and the
\* teardown then ran the effect cleanup.
StoppedThenTornDown ==
  /\ cbSinceStop = 0
  /\ ~isTracking
  /\ locationSubscription = NoSub
  /\ ~mounted

\* C13: the fix stored by a later invocation of getCurrentLocation is never
\* replaced by the fix of an earlier invocation.
FixesAppliedInInvocationOrder ==
  [][ (location[1] = "fix" /\ location'[1] = "fix") => location'[2] >= location[2] ]_vars

PermanentDenialIsDistinct ==
  (osLoc = "blocked" /\ chkGet = 0 /\ chkReq = 0 /\ permissionStatus # "null")
     => <<permissionStatus, errorMsg, locAlert>>
          # <<"denied", "permissionDenied", "Location Permission Required">>

\* C15: for each capability, a step of the permission flow that leaves the
\* OS permission state as it was leaves the status recorded by an earlier
\* run as it was.
RepeatedFlowRecordsSameStatus ==
  [][ /\ (permissionStatus # "null" /\ osLoc' = osLoc)
            => permissionStatus' = permissionStatus
      /\ (permission # "null" /\ osCam' = osCam)
            => permission' = permission
      /\ (galleryPermission # "null" /\ ~galCheckPending /\ osMedia' = osMedia)
            => galleryPermission' = galleryPermission ]_vars

\* The steps in which a permission or hardware call of the screens fails.
CameraCallFails ==
  \/ GalCheckThrow
  \/ PermRequestThrow
  \/ \E t \in saveTasks : SaveRequestThrow(t)
  \/ \E k \in 1..MaxCapture : CaptureFail(k)
  \/ PickFail
  \/ \E t \in saveTasks : \E e \in SaveErrorKinds : SaveFail(t, e)

LocationCallFails ==
  \/ LocGetThrow
  \/ LocRequestThrow
  \/ \E k \in 1..MaxFix : FixFail(k)
  \/ \E k \in 1..MaxWatch : WatchFail(k)

\* C17: every failing permission or hardware call leaves a user-facing
\* message: an alert on the camera screen, errorMsg on the location screen,
\* which renders it on its main screen only (part_001:249-253).
EveryFailureShowsMessage ==
  [][ /\ CameraCallFails => alert' # "none"
      /\ LocationCallFails => (errorMsg' # "null" /\ permissionStatus' = "granted") ]_vars

\* C18 (as stated): an invocation of saveToGallery calls createAssetAsync
\* and createAlbumAsync at most once each, and a media-store failure shows
\* the media store's own error.
SaveErrorShownVerbatim ==
  [][ /\ \A t \in saveTasks' : t.assetCalls <= 1 /\ t.albumCalls <= 1
      /\ \A t \in saveTasks : \A e \in SaveErrorKinds :
            SaveFail(t, e) => alert' = e ]_vars

\* C18 (amended): an invocation of saveToGallery calls createAssetAsync and
\* createAlbumAsync at most once each, and a media-store failure ends the
\* invocation with the alert 'Failed to save image to gallery' whatever the
\* error is.
SaveNotRetriedAndFixedMessage ==
  [][ /\ \A t \in saveTasks' : t.assetCalls <= 1 /\ t.albumCalls <= 1
      /\ \A t \in saveTasks : \A e \in SaveErrorKinds :
            SaveFail(t, e) => /\ alert' = "Error: Failed to save image to gallery"
                              /\ \A u \in saveTasks' : u.id # t.id
                              /\ ~isLoading' ]_vars

\* C18 witness: an invocation of saveToGallery has failed at the media store.
SaveFailedOnce ==
  /\ saveCount = 1
  /\ saveTasks = {}
  /\ alert = "Error: Failed to save image to gallery"
  /\ ~isLoading

\* C19: an error response of the API, for a login or a registration, and a
\* request that fails on the network leave currentUser and the stored
\* userData as they were; an error response shows the server's message.
FailedRequestChangesNoUser ==
  [][ \A t \in submitTasks :
        /\ \A m \in ServerMessages :
              SubmitRejected(t, m) =>
                 /\ currentUser' = currentUser
                 /\ storedUserData' = storedUserData
                 /\ m # "" => authAlert' = <<"Error", m>>
        /\ SubmitNetworkFail(t) =>
                 /\ currentUser' = currentUser
                 /\ storedUserData' = storedUserData ]_vars

\* C19 witness: a login request was answered with an error response.
LoginRejected ==
  /\ submitCount = 1
  /\ submitTasks = {}
  /\ isLogin
  /\ authAlert = <<"Error", "Invalid email or password">>
  /\ currentUser = "null"
  /\ ~loading

\* C20: handleSubmit with email or password empty, or with the name empty
\* in register mode, sends no request and leaves loading, isLogin,
\* currentUser and the form fields as they were; a request is sent only with
\* every field the mode requires non-empty.
NoRequestWithMissingFields ==
  [][ /\ (handleSubmit /\ (email = "" \/ password = "" \/ (~isLogin /\ name = "")))
            => /\ submitTasks' = submitTasks
               /\ submitCount' = submitCount
               /\ UNCHANGED <<loading, isLogin, currentUser, name, email, password>>
      /\ submitCount' # submitCount
            => (email # "" /\ password # "" /\ (isLogin \/ name # "")) ]_vars

\* C20 witness: handleSubmit has shown the validation alert and no request
\* was sent; the form is in register mode with the name missing.
SubmitRefusedForMissingField ==
  /\ authAlert = <<"Error", "Please fill in all fields">>
  /\ ~isLogin
  /\ name = ""
  /\ email # ""
  /\ password # ""
  /\ submitCount = 0
  /\ ~loading

\* C21: on the location and camera screens the loading flag is true in
\* every state in which an operation that set it has not completed yet.
LoadingWhileOperationPending ==
  /\ (chkGet + chkReq > 0 \/ fixPending # {} \/ watchPending # {} \/ watchCreated # {})
        => locIsLoading
  /\ (permReqPending > 0 \/ capturePending # {} \/ pickPending > 0
         \/ \E t \in saveTasks : AtMediaStore(t))
        => isLoading

\* C22: isTracking is true exactly when a subscription handle is stored, and
\* a failing watchPositionAsync call ends with isTracking false, no handle
\* stored and errorMsg set.
TrackingIffSubscriptionStored ==
  [][ /\ isTracking <=> locationSubscription # NoSub
      /\ \A k \in 1..MaxWatch :
            WatchFail(k) => /\ ~isTracking'
                            /\ locationSubscription' = NoSub
                            /\ errorMsg' = "watchError" ]_vars

\* C23 as stated: test mode is entered only while the permission object is
\* null, and once testMode is 'granted' no step changes it and neither the
\* live camera view nor the preview is rendered.
TestModeGrantedIsFinal ==
  [][ /\ (testMode = "false" /\ testMode' # "false") => permission = "null"
      /\ testMode = "granted" => /\ testMode' = "granted"
                                 /\ CamScreen' \notin {"camera", "preview"} ]_vars

\* C23 amended: test mode is entered only while the permission object is
\* null, and once testMode is 'granted' and the permission object has
\* resolved, no step changes testMode and the permission-required screen is
\* the one rendered, whatever the real camera permission is.
TestModeGrantedFinalOnceResolved ==
  [][ /\ (testMode = "false" /\ testMode' # "false") => permission = "null"
      /\ (testMode = "granted" /\ permission # "null")
            => /\ testMode' = "granted"
               /\ CamScreen' = "permission" ]_vars

\* The real permission has been granted by a request made in simulated
\* granted mode and the permission-required screen is still shown.
GrantedInTestModeStillPermissionScreen ==
  /\ testMode = "granted"
  /\ permission = "granted"
  /\ alert = "Success: Camera permission granted!"
  /\ CamScreen = "permission"

\* C24: when handleLogout completes, currentUser is null and the secure store
\* holds no userData item, and a load of a later mount with no login since
\* that logout leaves currentUser null.
LogoutClearsStoredUser ==
  [][ /\ (LogoutClearDone \/ LogoutClearFail)
            => /\ currentUser' = "null"
               /\ storedUserData' = NoUserData
      /\ (LoadDone /\ mountCount > 0 /\ logoutCount > 0 /\ lastLogin = "null")
            => currentUser' = "null" ]_vars

\* C25: with a successful login and no logout after it, the load of a fresh
\* mount sets currentUser to the user that login returned.  A login of the
\* mount whose load is resolving would have set currentUser, so currentUser
\* null tells that the login was made before this mount.
FreshMountRestoresLoggedInUser ==
  [][ (LoadDone /\ mountCount > 0 /\ lastLogin # "null" /\ currentUser = "null")
         => currentUser' = lastLogin ]_vars

\* C26: between a successful login and the next logout of the same mount,
\* currentUser is the user that login returned, however the mount-time read
\* of the store interleaves with the login request.
LoginNotOverwrittenByLateLoad ==
  (mountCount = 0 /\ lastLogin # "null") => currentUser = lastLogin

\* C27: at most one authentication request is in flight, a request starts
\* only while loading is false and sets it, and loading is false again as
\* soon as no request is left.
AtMostOneRequestInFlight ==
  [][ /\ Cardinality(submitTasks') <= 1
      /\ submitCount' # submitCount => ~loading /\ loading'
      /\ \A t \in submitTasks : t \notin submitTasks' /\ submitTasks' = {} => ~loading'
      /\ submitTasks' # {} => loading' ]_vars

\* Both requests of the session have been sent, one after the other, and the
\* second is still in flight with the submit button disabled.
SecondRequestInFlight ==
  /\ submitCount = MaxSubmit
  /\ Cardinality(submitTasks) = 1
  /\ loading

====
